---- MODULE Spec2Model ----
(***************************************************************************)
(* opticalc: closed-form ophthalmic-lens optics.                           *)
(*                                                                         *)
(* Every f64 of the program is a fixed-point number here: the integer n    *)
(* stands for n / SCALE.  Diopters, prism diopters, millimetres and degrees*)
(* all use the same scale.  Products and quotients round half away from    *)
(* zero, so that, as in IEEE arithmetic, -(a*b) = (-a)*b.  Sine and cosine *)
(* are exact at the cardinal angles and accurate to about one unit         *)
(* elsewhere; square roots round down and are exact on perfect squares.    *)
(* Properties that the program's tests state with a tolerance use          *)
(* the tolerances TolPower and TolAxis below.                              *)
(***************************************************************************)
EXTENDS Integers, Sequences, FiniteSets, TLC

VARIABLES
    op,        \* the operation under study: "cc", "prism", "new", "from_signed",
               \* "transpose", "power", "rx", "reading", "blank",
               \* "meridian" or "chain"
    pc,        \* "ready" before the call, "done" after it, and the steps between
    lens1,     \* SpheroCyl: first argument (the lens of induced_prism)
    lens2,     \* SpheroCyl: second argument of crossed_cylinders
    eye,       \* Eye argument of induced_prism
    dec,       \* Decentration argument of induced_prism
    result,    \* SpheroCyl returned by the operation, or its panic
    prism,     \* ClinicalInducedPrism returned by induced_prism
    build,     \* the build profile: "debug" or "release"
    harg,      \* arguments of the HorizontalPrism constructor
    varg,      \* arguments of the VerticalPrism constructor
    combined,  \* the CombinedPrism constructed, or the panic of its construction
    n_assumed, \* refractive index the lensmeter assumes
    n_actual,  \* refractive index of the material
    reading,   \* SpheroCyl returned by simulate_lensmeter_reading, or its panic
    power,     \* f64 returned by convert_power, or its panic
    frame,     \* the four arguments of the blank size functions, in mm
    min_size,  \* f64 returned by minimum_blank_size, or its panic
    recommended, \* f64 returned by recommended_blank_size, or its panic
    meridian,  \* phi_deg / axis_deg argument of power_at and oblique_meridian
    at_power,  \* f64 returned by power_at
    oblique,   \* f64 returned by oblique_meridian
    lens3,     \* SpheroCyl: the third lens of a chain of crossed_cylinders
    left,      \* SpheroCyl: crossed_cylinders(crossed_cylinders(a, b), c)
    right      \* SpheroCyl: crossed_cylinders(a, crossed_cylinders(b, c))

lensVars == <<lens1, lens2, eye, dec>>

valueVars == <<build, harg, varg, combined>>

indexVars == <<n_assumed, n_actual, reading, power>>

blankVars == <<frame, min_size, recommended>>

meridianVars == <<meridian, at_power, oblique>>

chainVars == <<lens3, left, right>>

vars ==
    <<op, pc, lensVars, result, prism, valueVars, indexVars, blankVars,
      meridianVars, chainVars>>

----------------------------------------------------------------------------
(* Fixed-point arithmetic standing for f64.                                *)

\* One unit of the program's f64 values is 1 / SCALE.
SCALE == 10000

Abs(a) == IF a < 0 THEN -a ELSE a

Sgn(a) == IF a < 0 THEN -1 ELSE IF a > 0 THEN 1 ELSE 0

Max(a, b) == IF a >= b THEN a ELSE b

\* The exact product of two non-negative integers as <<q, r>> with
\* a * b = q * SCALE + r and 0 <= r < SCALE, computed limb by limb so that no
\* intermediate value leaves the 32-bit range.
MulParts(a, b) ==
    LET ah == a \div SCALE
        al == a % SCALE
        bh == b \div SCALE
        bl == b % SCALE
        lo == al * bl
    IN  << ah * bh * SCALE + ah * bl + al * bh + (lo \div SCALE), lo % SCALE >>

\* f64 multiplication a * b.
Mul(a, b) ==
    LET p == MulParts(Abs(a), Abs(b))
        m == p[1] + (IF 2 * p[2] >= SCALE THEN 1 ELSE 0)
    IN  Sgn(a) * Sgn(b) * m

\* f64 division of a by the literal n (n = 2.0 or 10.0 in the program).
DivBy(a, n) == Sgn(a) * ((Abs(a) + (n \div 2)) \div n)

\* <<q1, r1>> <= <<q2, r2>> as two-limb numbers.
PartsLeq(p1, p2) == p1[1] < p2[1] \/ (p1[1] = p2[1] /\ p1[2] <= p2[2])

\* The sum of two two-limb numbers.
PartsAdd(p1, p2) ==
    << p1[1] + p2[1] + ((p1[2] + p2[2]) \div SCALE), (p1[2] + p2[2]) % SCALE >>

\* The largest r in lo .. hi - 1 with r * r <= p (p a two-limb number), by bisection.
RECURSIVE RootIn(_, _, _)
RootIn(p, lo, hi) ==
    IF hi - lo <= 1 THEN lo
    ELSE LET mid == (lo + hi) \div 2
         IN  IF PartsLeq(MulParts(mid, mid), p)
             THEN RootIn(p, mid, hi)
             ELSE RootIn(p, lo, mid)

\* f64::sqrt of a non-negative value.
Sqrt(v) == RootIn(<<v, 0>>, 0, Max(v, SCALE) + 1)

\* f64::hypot: sqrt(a^2 + b^2) without intermediate rounding.
Hypot(a, b) ==
    RootIn(PartsAdd(MulParts(Abs(a), Abs(a)), MulParts(Abs(b), Abs(b))),
           0, Abs(a) + Abs(b) + 1)

\* f64 remainder a % n: the result has the sign of the dividend.
Rem(a, n) == Sgn(a) * (Abs(a) % n)

\* Whole degrees as a fixed-point number of degrees.
Deg(d) == d * SCALE

\* sin of 0, 1, ..., 90 degrees, in units of 1 / SCALE.
SinTable ==
    << 0, 175, 349, 523, 698, 872, 1045, 1219, 1392, 1564, 1736, 1908, 2079,
       2250, 2419, 2588, 2756, 2924, 3090, 3256, 3420, 3584, 3746, 3907, 4067,
       4226, 4384, 4540, 4695, 4848, 5000, 5150, 5299, 5446, 5592, 5736, 5878,
       6018, 6157, 6293, 6428, 6561, 6691, 6820, 6947, 7071, 7193, 7314, 7431,
       7547, 7660, 7771, 7880, 7986, 8090, 8192, 8290, 8387, 8480, 8572, 8660,
       8746, 8829, 8910, 8988, 9063, 9135, 9205, 9272, 9336, 9397, 9455, 9511,
       9563, 9613, 9659, 9703, 9744, 9781, 9816, 9848, 9877, 9903, 9925, 9945,
       9962, 9976, 9986, 9994, 9998, 10000 >>

\* sin of an angle a in [0, 90] degrees: the table, interpolated linearly
\* between whole degrees.
SinQ(a) ==
    LET k == a \div SCALE
        f == a % SCALE
    IN  IF f = 0 THEN SinTable[k + 1]
        ELSE SinTable[k + 1]
             + DivBy((SinTable[k + 2] - SinTable[k + 1]) * f, SCALE)

\* axis_deg.to_radians().sin() for any angle, by the symmetries of the sine.
Sin(a) ==
    LET t == a % Deg(360)
    IN  IF t <= Deg(90) THEN SinQ(t)
        ELSE IF t <= Deg(180) THEN SinQ(Deg(180) - t)
        ELSE IF t <= Deg(270) THEN -SinQ(t - Deg(180))
        ELSE -SinQ(Deg(360) - t)

\* axis_deg.to_radians().cos().
Cos(a) == Sin(a + Deg(90))

\* x * sin(t) - y * cos(t): negative while the angle t lies below the
\* direction (x, y), positive above it.
Side(y, x, t) == Mul(x, Sin(t)) - Mul(y, Cos(t))

\* The whole degree k in lo .. hi - 1 with the direction (x, y), x > 0 and
\* y > 0, between k and k + 1 degrees, by bisection.
RECURSIVE DegreeIn(_, _, _, _)
DegreeIn(y, x, lo, hi) ==
    IF hi - lo <= 1 THEN lo
    ELSE LET mid == (lo + hi) \div 2
         IN  IF Side(y, x, Deg(mid)) <= 0
             THEN DegreeIn(y, x, mid, hi)
             ELSE DegreeIn(y, x, lo, mid)

\* The angle in [0, 90] degrees of the direction (x, y), x > 0 and y > 0:
\* the whole degree below it, plus the fraction where Side crosses zero.
AngleQ(y, x) ==
    LET k == DegreeIn(y, x, 0, 90)
        g0 == Side(y, x, Deg(k))
        g1 == Side(y, x, Deg(k + 1))
    IN  IF g0 >= 0 THEN Deg(k)
        ELSE IF g1 <= 0 THEN Deg(k + 1)
        ELSE Deg(k) + DivBy((-g0) * SCALE, g1 - g0)

\* y.atan2(x).to_degrees(), in (-180, 180].  The fixed-point numbers carry no
\* sign of zero: xneg tells whether a zero x is the f64 -0.0, for which
\* atan2(+0.0, -0.0) is pi.  (y = sphere - px is never -0.0.)
Atan2Deg(y, x, xneg) ==
    IF y = 0 /\ x = 0 THEN (IF xneg THEN Deg(180) ELSE 0)
    ELSE LET q == IF x = 0 THEN Deg(90)
                  ELSE IF y = 0 THEN 0
                  ELSE AngleQ(Abs(y), Abs(x))
         IN  IF x >= 0 THEN Sgn(y) * q
             ELSE IF y >= 0 THEN Deg(180) - q
             ELSE q - Deg(180)

----------------------------------------------------------------------------
(* crossed_cylinders.rs                                                    *)

\* PowerMatrix with the sign of the cross-term lost.
PowerMatrix_PlusPt(lens) ==
    LET s == lens.sphere
        c == lens.cylinder
        sin1 == Sin(lens.axis_deg)
        cos1 == Cos(lens.axis_deg)
    IN  << s + Mul(Mul(c, sin1), sin1),
           Mul(Mul(c, sin1), cos1),
           s + Mul(Mul(c, cos1), cos1) >>

\* PowerMatrix with sine and cosine exchanged in px and py.
PowerMatrix_SwapSinCos(lens) ==
    LET s == lens.sphere
        c == lens.cylinder
        sin1 == Sin(lens.axis_deg)
        cos1 == Cos(lens.axis_deg)
    IN  << s + Mul(Mul(c, cos1), cos1),
           Mul(Mul(-c, sin1), cos1),
           s + Mul(Mul(c, sin1), sin1) >>

\* PowerMatrix with the sine and cosine of the axis not squared.
PowerMatrix_NoSquare(lens) ==
    LET s == lens.sphere
        c == lens.cylinder
        sin1 == Sin(lens.axis_deg)
        cos1 == Cos(lens.axis_deg)
    IN  << s + Mul(c, sin1),
           Mul(Mul(-c, sin1), cos1),
           s + Mul(c, cos1) >>

\* The power matrix <<px, pt, py>> of a lens.
PowerMatrix(lens) ==
    LET s == lens.sphere
        c == lens.cylinder
        sin1 == Sin(lens.axis_deg)
        cos1 == Cos(lens.axis_deg)
    IN  << s + Mul(Mul(c, sin1), sin1),
           Mul(Mul(-c, sin1), cos1),
           s + Mul(Mul(c, cos1), cos1) >>

\* Decompose in plus-cylinder convention: cylinder = delta.
Decompose_PlusCylinder(px, pt, py, ptneg) ==
    LET trace == px + py
        determinant == Mul(px, py) - Mul(pt, pt)
        delta == Sqrt(Max(Mul(trace, trace) - 4 * determinant, 0))
        cylinder == delta
        sphere == DivBy(trace - cylinder, 2)
        axis0 == Atan2Deg(sphere - px, pt, ptneg)
        axis1 == Rem(axis0, Deg(180))
        axis_deg == IF axis1 < 0 THEN axis1 + Deg(180) ELSE axis1
    IN  [sphere |-> sphere, cylinder |-> cylinder, axis_deg |-> axis_deg]

\* Decompose without the remainder by 180.
Decompose_NoRem(px, pt, py, ptneg) ==
    LET trace == px + py
        determinant == Mul(px, py) - Mul(pt, pt)
        delta == Sqrt(Max(Mul(trace, trace) - 4 * determinant, 0))
        cylinder == -delta
        sphere == DivBy(trace - cylinder, 2)
        axis0 == Atan2Deg(sphere - px, pt, ptneg)
        axis_deg == IF axis0 < 0 THEN axis0 + Deg(180) ELSE axis0
    IN  [sphere |-> sphere, cylinder |-> cylinder, axis_deg |-> axis_deg]

\* Decompose with the two arguments of atan2 exchanged.
Decompose_SwapAtan2(px, pt, py, ptneg) ==
    LET trace == px + py
        determinant == Mul(px, py) - Mul(pt, pt)
        delta == Sqrt(Max(Mul(trace, trace) - 4 * determinant, 0))
        cylinder == -delta
        sphere == DivBy(trace - cylinder, 2)
        axis0 == Atan2Deg(pt, sphere - px, ptneg)
        axis1 == Rem(axis0, Deg(180))
        axis_deg == IF axis1 < 0 THEN axis1 + Deg(180) ELSE axis1
    IN  [sphere |-> sphere, cylinder |-> cylinder, axis_deg |-> axis_deg]

\* Decompose with sphere = (trace + cylinder) / 2.
Decompose_SpherePlus(px, pt, py, ptneg) ==
    LET trace == px + py
        determinant == Mul(px, py) - Mul(pt, pt)
        delta == Sqrt(Max(Mul(trace, trace) - 4 * determinant, 0))
        cylinder == -delta
        sphere == DivBy(trace + cylinder, 2)
        axis0 == Atan2Deg(sphere - px, pt, ptneg)
        axis1 == Rem(axis0, Deg(180))
        axis_deg == IF axis1 < 0 THEN axis1 + Deg(180) ELSE axis1
    IN  [sphere |-> sphere, cylinder |-> cylinder, axis_deg |-> axis_deg]

\* The decomposition of the power matrix (px, pt, py) into sphere, cylinder
\* and axis in minus-cylinder convention.
Decompose(px, pt, py, ptneg) ==
    LET trace == px + py
        determinant == Mul(px, py) - Mul(pt, pt)
        delta == Sqrt(Max(Mul(trace, trace) - 4 * determinant, 0))
        cylinder == -delta
        sphere == DivBy(trace - cylinder, 2)
        axis0 == Atan2Deg(sphere - px, pt, ptneg)
        axis1 == Rem(axis0, Deg(180))
        axis_deg == IF axis1 < 0 THEN axis1 + Deg(180) ELSE axis1
    IN  [sphere |-> sphere, cylinder |-> cylinder, axis_deg |-> axis_deg]

\* crossed_cylinders with the cross-terms subtracted instead of added.
crossed_cylinders_SubPt(l1, l2, ptneg) ==
    LET m1 == PowerMatrix(l1)
        m2 == PowerMatrix(l2)
    IN  Decompose(m1[1] + m2[1], m1[2] - m2[2], m1[3] + m2[3], ptneg)

\* crossed_cylinders(lens1, lens2); ptneg: a zero sum pt1 + pt2 is -0.0.
crossed_cylinders(l1, l2, ptneg) ==
    LET m1 == PowerMatrix(l1)
        m2 == PowerMatrix(l2)
    IN  Decompose(m1[1] + m2[1], m1[2] + m2[2], m1[3] + m2[3], ptneg)

----------------------------------------------------------------------------
(* prism.rs                                                                *)

\* Option<(f64, Base)>.
None == [some |-> FALSE]

Some(amount, base) == [some |-> TRUE, amount |-> amount, base |-> base]

\* induced_prism without the nasal flip for OS.
induced_prism_NoFlip(e, lens, d) ==
    LET m == PowerMatrix(lens)
        px == m[1]
        pt == m[2]
        py == m[3]
        dec_up_mm == d.vertical_mm
        dec_in_adjusted_mm == d.horizontal_mm
        horiz_value == DivBy(Mul(px, -dec_in_adjusted_mm), 10)
                       + DivBy(Mul(pt, -dec_up_mm), 10)
        vert_value == DivBy(Mul(-pt, dec_in_adjusted_mm), 10)
                      + DivBy(Mul(-py, dec_up_mm), 10)
    IN  [eye |-> e,
         prism |-> [horizontal_prism |-> horiz_value,
                    vertical_prism |-> vert_value,
                    magnitude |-> Hypot(horiz_value, vert_value)]]

\* induced_prism with the decentration left in millimetres.
induced_prism_Mm(e, lens, d) ==
    LET m == PowerMatrix(lens)
        px == m[1]
        pt == m[2]
        py == m[3]
        dec_up_mm == d.vertical_mm
        dec_in_mm == d.horizontal_mm
        dec_in_adjusted_mm == IF e = "OD" THEN dec_in_mm ELSE -dec_in_mm
        horiz_value == Mul(px, -dec_in_adjusted_mm) + Mul(pt, -dec_up_mm)
        vert_value == Mul(-pt, dec_in_adjusted_mm) + Mul(-py, dec_up_mm)
    IN  [eye |-> e,
         prism |-> [horizontal_prism |-> horiz_value,
                    vertical_prism |-> vert_value,
                    magnitude |-> Hypot(horiz_value, vert_value)]]

\* induced_prism without the toric cross-term Pt.
induced_prism_NoCross(e, lens, d) ==
    LET m == PowerMatrix(lens)
        px == m[1]
        pt == m[2]
        py == m[3]
        dec_up_mm == d.vertical_mm
        dec_in_mm == d.horizontal_mm
        dec_in_adjusted_mm == IF e = "OD" THEN dec_in_mm ELSE -dec_in_mm
        horiz_value == DivBy(Mul(px, -dec_in_adjusted_mm), 10)
                       + DivBy(Mul(0, -dec_up_mm), 10)
        vert_value == DivBy(Mul(0, dec_in_adjusted_mm), 10)
                      + DivBy(Mul(-py, dec_up_mm), 10)
    IN  [eye |-> e,
         prism |-> [horizontal_prism |-> horiz_value,
                    vertical_prism |-> vert_value,
                    magnitude |-> Hypot(horiz_value, vert_value)]]

\* induced_prism with both decentration components negated for OS.
induced_prism_FlipBoth(e, lens, d) ==
    LET m == PowerMatrix(lens)
        px == m[1]
        pt == m[2]
        py == m[3]
        dec_up_mm == IF e = "OD" THEN d.vertical_mm ELSE -d.vertical_mm
        dec_in_mm == d.horizontal_mm
        dec_in_adjusted_mm == IF e = "OD" THEN dec_in_mm ELSE -dec_in_mm
        horiz_value == DivBy(Mul(px, -dec_in_adjusted_mm), 10)
                       + DivBy(Mul(pt, -dec_up_mm), 10)
        vert_value == DivBy(Mul(-pt, dec_in_adjusted_mm), 10)
                      + DivBy(Mul(-py, dec_up_mm), 10)
    IN  [eye |-> e,
         prism |-> [horizontal_prism |-> horiz_value,
                    vertical_prism |-> vert_value,
                    magnitude |-> Hypot(horiz_value, vert_value)]]

\* induced_prism with the vertical decentration taken as a magnitude.
induced_prism_AbsUp(e, lens, d) ==
    LET m == PowerMatrix(lens)
        px == m[1]
        pt == m[2]
        py == m[3]
        dec_up_mm == Abs(d.vertical_mm)
        dec_in_mm == d.horizontal_mm
        dec_in_adjusted_mm == IF e = "OD" THEN dec_in_mm ELSE -dec_in_mm
        horiz_value == DivBy(Mul(px, -dec_in_adjusted_mm), 10)
                       + DivBy(Mul(pt, -dec_up_mm), 10)
        vert_value == DivBy(Mul(-pt, dec_in_adjusted_mm), 10)
                      + DivBy(Mul(-py, dec_up_mm), 10)
    IN  [eye |-> e,
         prism |-> [horizontal_prism |-> horiz_value,
                    vertical_prism |-> vert_value,
                    magnitude |-> Hypot(horiz_value, vert_value)]]

\* induced_prism(eye, lens, dec).
induced_prism(e, lens, d) ==
    LET m == PowerMatrix(lens)
        px == m[1]
        pt == m[2]
        py == m[3]
        dec_up_mm == d.vertical_mm
        dec_in_mm == d.horizontal_mm
        dec_in_adjusted_mm == IF e = "OD" THEN dec_in_mm ELSE -dec_in_mm
        horiz_value == DivBy(Mul(px, -dec_in_adjusted_mm), 10)
                       + DivBy(Mul(pt, -dec_up_mm), 10)
        vert_value == DivBy(Mul(-pt, dec_in_adjusted_mm), 10)
                      + DivBy(Mul(-py, dec_up_mm), 10)
    IN  [eye |-> e,
         prism |-> [horizontal_prism |-> horiz_value,
                    vertical_prism |-> vert_value,
                    magnitude |-> Hypot(horiz_value, vert_value)]]

\* horizontal without the early return for a zero value.
horizontal_NoZero(p) ==
    LET value == p.prism.horizontal_prism
    IN  Some(Abs(value),
             IF p.eye = "OD"
             THEN (IF value < 0 THEN "In" ELSE "Out")
             ELSE (IF value < 0 THEN "Out" ELSE "In"))

\* horizontal with the OD mapping used for both eyes.
horizontal_SameForOS(p) ==
    LET value == p.prism.horizontal_prism
    IN  IF value = 0 THEN None
        ELSE Some(Abs(value), IF value < 0 THEN "In" ELSE "Out")

\* ClinicalInducedPrism::horizontal.
horizontal(p) ==
    LET value == p.prism.horizontal_prism
    IN  IF value = 0 THEN None
        ELSE Some(Abs(value),
                  IF p.eye = "OD"
                  THEN (IF value < 0 THEN "In" ELSE "Out")
                  ELSE (IF value < 0 THEN "Out" ELSE "In"))

\* vertical with the two base directions exchanged.
vertical_Swapped(p) ==
    LET value == p.prism.vertical_prism
    IN  IF value = 0 THEN None
        ELSE Some(Abs(value), IF value < 0 THEN "Down" ELSE "Up")

\* vertical with the base resolved by eye, as horizontal resolves it.
vertical_ByEye(p) ==
    LET value == p.prism.vertical_prism
    IN  IF value = 0 THEN None
        ELSE Some(Abs(value),
                  IF p.eye = "OD"
                  THEN (IF value < 0 THEN "Up" ELSE "Down")
                  ELSE (IF value < 0 THEN "Down" ELSE "Up"))

\* ClinicalInducedPrism::vertical.
vertical(p) ==
    LET value == p.prism.vertical_prism
    IN  IF value = 0 THEN None
        ELSE Some(Abs(value), IF value < 0 THEN "Up" ELSE "Down")

----------------------------------------------------------------------------
(* lib.rs: HorizontalPrism, VerticalPrism, CombinedPrism, power_at.        *)

\* The amounts of the prism value types are compared with f64::EPSILON, far
\* below the resolution 1 / SCALE.  An f64 of these types is a pair <<n, t>>:
\* either <<n, 0>>, the fixed-point number n, or <<0, t>>, the value
\* t * 2^-53 (half a machine epsilon per unit of t), smaller in absolute value
\* than one unit of n.
F(n) == <<n, 0>>

Tiny(t) == <<0, t>>

\* f64::EPSILON = 2^-52.
EPSILON == Tiny(2)

\* x < y.
FLess(x, y) == x[1] < y[1] \/ (x[1] = y[1] /\ x[2] < y[2])

\* x >= y.
FGeq(x, y) == ~FLess(x, y)

\* -x.
FNeg(x) == <<-x[1], -x[2]>>

\* x.abs().
FAbs(x) == IF FLess(x, F(0)) THEN FNeg(x) ELSE x

\* x.hypot(y): a value below the resolution is absorbed by one above it.
FHypot(x, y) ==
    IF x[1] # 0 \/ y[1] # 0 THEN F(Hypot(x[1], y[1]))
    ELSE Tiny(Hypot(x[2], y[2]))

\* A failed assertion: the call returns no value.
Panic(msg) == [panic |-> msg]

IsPanic(v) == "panic" \in DOMAIN v

\* HorizontalPrism::new with assert! in place of debug_assert!.
HorizontalPrism_new_Assert(amount, base, b) ==
    IF ~FGeq(amount, F(0))
    THEN Panic("amount must be non-negative")
    ELSE [amount |-> amount, base |-> base]

\* HorizontalPrism::new(amount, base) in build b; debug_assert! is compiled
\* only in a debug build.
HorizontalPrism_new(amount, base, b) ==
    IF b = "debug" /\ ~FGeq(amount, F(0))
    THEN Panic("amount must be non-negative")
    ELSE [amount |-> amount, base |-> base]

\* HorizontalPrism::from_signed with value <= 0.0 as the Base In case.
HorizontalPrism_from_signed_Le(value) ==
    IF FLess(value, F(0)) \/ value = F(0)
    THEN [amount |-> FNeg(value), base |-> "In"]
    ELSE [amount |-> value, base |-> "Out"]

\* HorizontalPrism::from_signed(value).
HorizontalPrism_from_signed(value) ==
    IF FLess(value, F(0))
    THEN [amount |-> FNeg(value), base |-> "In"]
    ELSE [amount |-> value, base |-> "Out"]

\* HorizontalPrism::is_none with the exact comparison only.
HorizontalPrism_is_none_Exact(p) == p.amount = F(0)

\* HorizontalPrism::is_none.
HorizontalPrism_is_none(p) ==
    p.amount = F(0) \/ FLess(FAbs(p.amount), EPSILON)

\* HorizontalPrism::base: Option<HorizontalBase>.
HorizontalPrism_base(p) ==
    IF HorizontalPrism_is_none(p) THEN [some |-> FALSE]
    ELSE [some |-> TRUE, base |-> p.base]

\* HorizontalPrism::amount.
HorizontalPrism_amount(p) == p.amount

\* HorizontalPrism::signed.
HorizontalPrism_signed(p) ==
    IF p.base = "In" THEN FNeg(p.amount) ELSE p.amount

\* VerticalPrism::new(amount, base) in build b.
VerticalPrism_new(amount, base, b) ==
    IF b = "debug" /\ ~FGeq(amount, F(0))
    THEN Panic("amount must be non-negative")
    ELSE [amount |-> amount, base |-> base]

\* VerticalPrism::from_signed(value).
VerticalPrism_from_signed(value) ==
    IF FLess(value, F(0))
    THEN [amount |-> FNeg(value), base |-> "Down"]
    ELSE [amount |-> value, base |-> "Up"]

\* VerticalPrism::is_none.
VerticalPrism_is_none(p) == p.amount = F(0)

\* VerticalPrism::base: Option<VerticalBase>.
VerticalPrism_base(p) ==
    IF VerticalPrism_is_none(p) THEN [some |-> FALSE]
    ELSE [some |-> TRUE, base |-> p.base]

\* VerticalPrism::amount.
VerticalPrism_amount(p) == p.amount

\* VerticalPrism::signed.
VerticalPrism_signed(p) ==
    IF p.base = "Up" THEN p.amount ELSE FNeg(p.amount)

\* CombinedPrism { horizontal, vertical }: a panic of either constructor
\* aborts the construction.
CombinedPrism(h, v) ==
    IF IsPanic(h) THEN h
    ELSE IF IsPanic(v) THEN v
    ELSE [horizontal |-> h, vertical |-> v]

\* CombinedPrism::magnitude as the sum of the two amounts.
magnitude_Sum(c) ==
    LET h == HorizontalPrism_amount(c.horizontal)
        v == VerticalPrism_amount(c.vertical)
    IN  IF h[1] # 0 \/ v[1] # 0 THEN F(h[1] + v[1]) ELSE Tiny(h[2] + v[2])

\* CombinedPrism::magnitude.
magnitude(c) ==
    FHypot(HorizontalPrism_amount(c.horizontal), VerticalPrism_amount(c.vertical))

\* The packaging of the raw components of induced_prism into a
\* CombinedPrism: the horizontal base from the sign of horiz and the eye, the
\* vertical base from the sign of vert (Base Up for vert >= 0), the amounts
\* their absolute values.  vert is minus the stored vertical_prism.
Package(p, b) ==
    LET horiz == p.prism.horizontal_prism
        vert == -p.prism.vertical_prism
        hbase == IF p.eye = "OD"
                 THEN (IF horiz < 0 THEN "In" ELSE "Out")
                 ELSE (IF horiz < 0 THEN "Out" ELSE "In")
        vbase == IF vert >= 0 THEN "Up" ELSE "Down"
    IN  CombinedPrism(HorizontalPrism_new(F(Abs(horiz)), hbase, b),
                      VerticalPrism_new(F(Abs(vert)), vbase, b))

\* SpheroCyl::power_at(phi_deg).
\* power_at with the cosine of the angle from the axis in place of the sine.
power_at_Cos(lens, phi_deg) ==
    LET cos_delta == Cos(phi_deg - lens.axis_deg)
    IN  lens.sphere + Mul(lens.cylinder, Mul(cos_delta, cos_delta))

power_at(lens, phi_deg) ==
    LET sin_delta == Sin(phi_deg - lens.axis_deg)
    IN  lens.sphere + Mul(lens.cylinder, Mul(sin_delta, sin_delta))

(***************************************************************************)
(* oblique_meridian.rs                                                     *)
(***************************************************************************)

oblique_meridian(lens, axis_deg) == power_at(lens, axis_deg)

----------------------------------------------------------------------------
(* transpose.rs                                                            *)

\* transpose adding 90 degrees to every axis.
transpose_AlwaysAdd(lens) ==
    [sphere |-> lens.sphere + lens.cylinder,
     cylinder |-> -lens.cylinder,
     axis_deg |-> lens.axis_deg + Deg(90)]

\* transpose subtracting 90 degrees only above 90.
transpose_Gt(lens) ==
    [sphere |-> lens.sphere + lens.cylinder,
     cylinder |-> -lens.cylinder,
     axis_deg |-> IF lens.axis_deg > Deg(90)
                  THEN lens.axis_deg - Deg(90)
                  ELSE lens.axis_deg + Deg(90)]

\* transpose keeping the sign of the cylinder.
transpose_KeepCylinder(lens) ==
    [sphere |-> lens.sphere + lens.cylinder,
     cylinder |-> lens.cylinder,
     axis_deg |-> IF lens.axis_deg >= Deg(90)
                  THEN lens.axis_deg - Deg(90)
                  ELSE lens.axis_deg + Deg(90)]

\* SpheroCyl::transpose, and the function transpose that calls it.
transpose(lens) ==
    LET new_sphere == lens.sphere + lens.cylinder
        new_cylinder == -lens.cylinder
        new_axis == IF lens.axis_deg >= Deg(90)
                    THEN lens.axis_deg - Deg(90)
                    ELSE lens.axis_deg + Deg(90)
    IN  [sphere |-> new_sphere, cylinder |-> new_cylinder, axis_deg |-> new_axis]

----------------------------------------------------------------------------
(* convert_power.rs                                                        *)

\* f64 division a / b, b # 0.
Div(a, b) == Sgn(a) * Sgn(b) * ((Abs(a) * SCALE + (Abs(b) \div 2)) \div Abs(b))

\* A call that returned the f64 v.
Returned(v) == [value |-> v]

\* convert_power asserting n_actual before n_assumed.
convert_power_ActualFirst(measured_power_diopters, na, nb) ==
    IF ~(nb > SCALE) THEN Panic("n_actual must be > 1.0")
    ELSE IF ~(na > SCALE) THEN Panic("n_assumed must be > 1.0")
    ELSE LET k_assumed == na - SCALE
             k_actual == nb - SCALE
         IN  Returned(Mul(measured_power_diopters, Div(k_actual, k_assumed)))

\* convert_power(measured_power_diopters, n_assumed, n_actual); assert! is
\* compiled in every build.
convert_power(measured_power_diopters, na, nb) ==
    IF ~(na > SCALE) THEN Panic("n_assumed must be > 1.0")
    ELSE IF ~(nb > SCALE) THEN Panic("n_actual must be > 1.0")
    ELSE LET k_assumed == na - SCALE
             k_actual == nb - SCALE
         IN  Returned(Mul(measured_power_diopters, Div(k_actual, k_assumed)))

\* convert_rx(measured, n_assumed, n_actual).
convert_rx(measured, na, nb) ==
    LET s == convert_power(measured.sphere, na, nb)
        c == convert_power(measured.cylinder, na, nb)
    IN  IF IsPanic(s) THEN s
        ELSE IF IsPanic(c) THEN c
        ELSE [sphere |-> s.value, cylinder |-> c.value,
              axis_deg |-> measured.axis_deg]

\* simulate_lensmeter_reading passing the indices in the order of convert_rx.
simulate_lensmeter_reading_NoSwap(true_rx, na, nb) ==
    LET s == convert_power(true_rx.sphere, na, nb)
        c == convert_power(true_rx.cylinder, na, nb)
    IN  IF IsPanic(s) THEN s
        ELSE IF IsPanic(c) THEN c
        ELSE [sphere |-> s.value, cylinder |-> c.value,
              axis_deg |-> true_rx.axis_deg]

\* simulate_lensmeter_reading(true_rx, n_assumed, n_actual).
simulate_lensmeter_reading(true_rx, na, nb) ==
    LET s == convert_power(true_rx.sphere, nb, na)
        c == convert_power(true_rx.cylinder, nb, na)
    IN  IF IsPanic(s) THEN s
        ELSE IF IsPanic(c) THEN c
        ELSE [sphere |-> s.value, cylinder |-> c.value,
              axis_deg |-> true_rx.axis_deg]

----------------------------------------------------------------------------
(* minimum_blank_size.rs                                                   *)

\* The first debug_assert! of minimum_blank_size that fails, if any.
NegativeArgument(f) ==
    IF ~(f.effective_diameter_mm >= 0)
    THEN Panic("effective_diameter_mm must be non-negative")
    ELSE IF ~(f.eyesize_mm >= 0) THEN Panic("eyesize_mm must be non-negative")
    ELSE IF ~(f.bridge_mm >= 0) THEN Panic("bridge_mm must be non-negative")
    ELSE IF ~(f.ipd_mm >= 0) THEN Panic("ipd_mm must be non-negative")
    ELSE Returned(0)

\* minimum_blank_size(effective_diameter_mm, eyesize_mm, bridge_mm, ipd_mm)
\* in build b.
minimum_blank_size(f, b) ==
    IF b = "debug" /\ IsPanic(NegativeArgument(f)) THEN NegativeArgument(f)
    ELSE Returned(f.effective_diameter_mm
                  + (f.eyesize_mm + f.bridge_mm - f.ipd_mm))

\* recommended_blank_size with a border of 1 mm in all.
recommended_blank_size_OneMm(f, b) ==
    LET m == minimum_blank_size(f, b)
    IN  IF IsPanic(m) THEN m ELSE Returned(m.value + SCALE)

\* recommended_blank_size(effective_diameter_mm, eyesize_mm, bridge_mm,
\* ipd_mm) in build b.
recommended_blank_size(f, b) ==
    LET m == minimum_blank_size(f, b)
    IN  IF IsPanic(m) THEN m ELSE Returned(m.value + 2 * SCALE)

----------------------------------------------------------------------------
(* Inputs.                                                                 *)

\* Spheres range over -MaxSphere .. MaxSphere steps of 1.00 D.
MaxSphere == 1

\* Cylinders range over -MaxCylinder .. MaxCylinder steps of 1.00 D.
MaxCylinder == 2

Spheres == {i * 10000 : i \in -MaxSphere .. MaxSphere}

Cylinders == {i * 10000 : i \in -MaxCylinder .. MaxCylinder}

\* Axes inside and outside the canonical range [0, 180).
Axes == {Deg(d) : d \in {-45, 0, 30, 45, 90, 120, 180}}

Lenses == [sphere : Spheres, cylinder : Cylinders, axis_deg : Axes]

\* The lenses of induced_prism have spheres of -MaxPrismSphere ..
\* MaxPrismSphere steps of 1.00 D.
MaxPrismSphere == 3

PrismLenses ==
    [sphere : {i * 10000 : i \in -MaxPrismSphere .. MaxPrismSphere},
     cylinder : Cylinders, axis_deg : Axes]

NoLens == [sphere |-> 0, cylinder |-> 0, axis_deg |-> 0]

\* Decentrations range over -MaxDec .. MaxDec steps of 5 mm on both axes.
MaxDec == 2

Millimetres == {i * 50000 : i \in -MaxDec .. MaxDec}

Decentrations == [vertical_mm : Millimetres, horizontal_mm : Millimetres]

Eyes == {"OD", "OS"}

NoDec == [vertical_mm |-> 0, horizontal_mm |-> 0]

NoPrism == [eye |-> "OD",
            prism |-> [horizontal_prism |-> 0, vertical_prism |-> 0, magnitude |-> 0]]

Builds == {"debug", "release"}

\* Amounts and signed values of the prism value types: -MaxAmount ..
\* MaxAmount prism diopters in steps of 1, and -MaxUlps .. MaxUlps halves of
\* f64::EPSILON.
MaxAmount == 4

MaxUlps == 3

PrismValues ==
    {F(i * SCALE) : i \in -MaxAmount .. MaxAmount}
        \cup {Tiny(t) : t \in -MaxUlps .. MaxUlps}

HorizontalBases == {"In", "Out"}

VerticalBases == {"Up", "Down"}

NoArg == [value |-> F(0), base |-> "Out"]

NoCombined ==
    [horizontal |-> [amount |-> F(0), base |-> "Out"],
     vertical |-> [amount |-> F(0), base |-> "Up"]]

\* The lenses transposed: axes of [0, 180) and the axis 180.
TransposeAxes == {Deg(d) : d \in {0, 30, 45, 60, 90, 120, 135, 150, 180}}

TransposeLenses ==
    [sphere : {i * 10000 : i \in -MaxPrismSphere .. MaxPrismSphere},
     cylinder : Cylinders, axis_deg : TransposeAxes]

\* The meridians at which power_at is compared.
Meridians == {Deg(d) : d \in {0, 30, 60, 90, 120, 150, 180}}

\* The lenses of a chain of combinations: minus and plus cylinders at
\* cardinal and oblique axes.
ChainLenses ==
    [sphere : {-20000, -2500}, cylinder : {-20000, 20000},
     axis_deg : {Deg(d) : d \in {0, 45, 120}}]

\* The meridians power_at is asked for: every axis of Axes, every axis plus
\* 90 degrees, and meridians between them.
PowerMeridians ==
    Axes \cup {a + Deg(90) : a \in Axes} \cup {Deg(d) : d \in {15, 60, 150}}

\* Refractive indices: 0.9 and 1.0, which convert_power rejects, and the
\* indices of CR-39, crown glass, polycarbonate and 1.74 high-index.
Indices == {9000, 10000, 14980, 15230, 15860, 17400}

\* The prescriptions converted.
IndexLenses ==
    [sphere : {i * 10000 : i \in -MaxPrismSphere .. MaxPrismSphere},
     cylinder : Cylinders, axis_deg : {0, Deg(37), Deg(180)}]

\* Frame measurements: -1 mm, 0 mm and the measurement m plus 0 ..
\* MaxFrameStep steps of 2.5 mm.
MaxFrameStep == 1

FrameSizes(m) == {-SCALE, 0} \cup {m * SCALE + k * 25000 : k \in 0 .. MaxFrameStep}

Frames ==
    [effective_diameter_mm : FrameSizes(55), eyesize_mm : FrameSizes(50),
     bridge_mm : FrameSizes(15), ipd_mm : FrameSizes(53)]

NoFrame ==
    [effective_diameter_mm |-> 0, eyesize_mm |-> 0, bridge_mm |-> 0, ipd_mm |-> 0]

\* The variables of the operations that are not under study.
IdleLens ==
    /\ lens1 = NoLens
    /\ lens2 = NoLens
    /\ eye = "OD"
    /\ dec = NoDec
    /\ result = NoLens
    /\ prism = NoPrism

IdleValue ==
    /\ build = "debug"
    /\ harg = NoArg
    /\ varg = NoArg
    /\ combined = NoCombined

IdleIndex ==
    /\ n_assumed = SCALE
    /\ n_actual = SCALE
    /\ reading = NoLens
    /\ power = 0

IdleBlank ==
    /\ frame = NoFrame
    /\ min_size = Returned(0)
    /\ recommended = Returned(0)

IdleMeridian ==
    /\ meridian = 0
    /\ at_power = 0
    /\ oblique = 0

IdleChain ==
    /\ lens3 = NoLens
    /\ left = NoLens
    /\ right = NoLens

----------------------------------------------------------------------------
(* The calls.                                                              *)

InitCC ==
    /\ op = "cc"
    /\ pc = "ready"
    /\ lens1 \in Lenses
    /\ lens2 \in Lenses
    /\ eye = "OD"
    /\ dec = NoDec
    /\ result = NoLens
    /\ prism = NoPrism
    /\ IdleValue
    /\ IdleIndex
    /\ IdleBlank
    /\ IdleMeridian
    /\ IdleChain

CrossedCylinders ==
    /\ op = "cc"
    /\ pc = "ready"
    /\ \E ptneg \in BOOLEAN : result' = crossed_cylinders(lens1, lens2, ptneg)
    /\ pc' = "done"
    /\ UNCHANGED <<op, lensVars, prism, valueVars, indexVars, blankVars,
                 meridianVars, chainVars>>

NextCC == CrossedCylinders

SpecCC == InitCC /\ [][NextCC]_vars

InitPrism ==
    /\ op = "prism"
    /\ pc = "ready"
    /\ lens1 \in PrismLenses
    /\ lens2 = NoLens
    /\ eye \in Eyes
    /\ dec \in Decentrations
    /\ result = NoLens
    /\ prism = NoPrism
    /\ build \in Builds
    /\ harg = NoArg
    /\ varg = NoArg
    /\ combined = NoCombined
    /\ IdleIndex
    /\ IdleBlank
    /\ IdleMeridian
    /\ IdleChain

InducedPrism ==
    /\ op = "prism"
    /\ pc = "ready"
    /\ prism' = induced_prism(eye, lens1, dec)
    /\ pc' = "done"
    /\ UNCHANGED <<op, lensVars, result, valueVars, indexVars, blankVars,
                 meridianVars, chainVars>>

NextPrism == InducedPrism

SpecPrism == InitPrism /\ [][NextPrism]_vars

\* CombinedPrism { horizontal: HorizontalPrism::new(..), vertical:
\* VerticalPrism::new(..) }.
InitNew ==
    /\ op = "new"
    /\ pc = "ready"
    /\ build \in Builds
    /\ harg \in [value : PrismValues, base : HorizontalBases]
    /\ varg \in [value : PrismValues, base : VerticalBases]
    /\ combined = NoCombined
    /\ IdleLens
    /\ IdleIndex
    /\ IdleBlank
    /\ IdleMeridian
    /\ IdleChain

NewPrisms ==
    /\ op = "new"
    /\ pc = "ready"
    /\ combined' = CombinedPrism(HorizontalPrism_new(harg.value, harg.base, build),
                                 VerticalPrism_new(varg.value, varg.base, build))
    /\ pc' = "done"
    /\ UNCHANGED <<op, lensVars, result, prism, build, harg, varg, indexVars, blankVars,
                 meridianVars, chainVars>>

\* CombinedPrism { horizontal: HorizontalPrism::from_signed(..), vertical:
\* VerticalPrism::from_signed(..) }.
InitFromSigned ==
    /\ op = "from_signed"
    /\ pc = "ready"
    /\ build \in Builds
    /\ harg \in [value : PrismValues, base : {"Out"}]
    /\ varg \in [value : PrismValues, base : {"Up"}]
    /\ combined = NoCombined
    /\ IdleLens
    /\ IdleIndex
    /\ IdleBlank
    /\ IdleMeridian
    /\ IdleChain

FromSigned ==
    /\ op = "from_signed"
    /\ pc = "ready"
    /\ combined' = CombinedPrism(HorizontalPrism_from_signed(harg.value),
                                 VerticalPrism_from_signed(varg.value))
    /\ pc' = "done"
    /\ UNCHANGED <<op, lensVars, result, prism, build, harg, varg, indexVars, blankVars,
                 meridianVars, chainVars>>

\* The CombinedPrism of the raw components that induced_prism returned.
PackagePrism ==
    /\ op = "prism"
    /\ pc = "done"
    /\ combined' = Package(prism, build)
    /\ pc' = "packed"
    /\ UNCHANGED <<op, lensVars, result, prism, build, harg, varg, indexVars, blankVars,
                 meridianVars, chainVars>>

InitValue == InitNew \/ InitFromSigned \/ InitPrism

NextValue == NewPrisms \/ FromSigned \/ InducedPrism \/ PackagePrism

SpecValue == InitValue /\ [][NextValue]_vars

\* lens1.transpose().transpose(): result is the lens after each call.
InitTranspose ==
    /\ op = "transpose"
    /\ pc = "ready"
    /\ lens1 \in TransposeLenses
    /\ lens2 = NoLens
    /\ eye = "OD"
    /\ dec = NoDec
    /\ result = NoLens
    /\ prism = NoPrism
    /\ IdleValue
    /\ IdleIndex
    /\ IdleBlank
    /\ IdleMeridian
    /\ IdleChain

Transpose ==
    /\ op = "transpose"
    /\ pc \in {"ready", "once"}
    /\ result' = transpose(IF pc = "ready" THEN lens1 ELSE result)
    /\ pc' = IF pc = "ready" THEN "once" ELSE "twice"
    /\ UNCHANGED <<op, lensVars, prism, valueVars, indexVars, blankVars,
                 meridianVars, chainVars>>

NextTranspose == Transpose

SpecTranspose == InitTranspose /\ [][NextTranspose]_vars

\* convert_power(lens1.sphere, ..), convert_rx(lens1, ..), or
\* convert_rx(simulate_lensmeter_reading(lens1, ..), ..).
InitIndex ==
    /\ op \in {"power", "rx", "reading"}
    /\ pc = "ready"
    /\ lens1 \in IndexLenses
    /\ lens2 = NoLens
    /\ eye = "OD"
    /\ dec = NoDec
    /\ result = NoLens
    /\ prism = NoPrism
    /\ IdleValue
    /\ n_assumed \in Indices
    /\ n_actual \in Indices
    /\ reading = NoLens
    /\ power = 0
    /\ IdleBlank
    /\ IdleMeridian
    /\ IdleChain

ConvertPower ==
    /\ op = "power"
    /\ pc = "ready"
    /\ power' = convert_power(lens1.sphere, n_assumed, n_actual)
    /\ pc' = "done"
    /\ UNCHANGED <<op, lensVars, result, prism, valueVars, n_assumed, n_actual, reading, blankVars,
                 meridianVars, chainVars>>

SimulateLensmeterReading ==
    /\ op = "reading"
    /\ pc = "ready"
    /\ reading' = simulate_lensmeter_reading(lens1, n_assumed, n_actual)
    /\ pc' = "read"
    /\ UNCHANGED <<op, lensVars, result, prism, valueVars, n_assumed, n_actual, power, blankVars,
                 meridianVars, chainVars>>

\* convert_rx of lens1, or of the reading when the simulation returned one.
ConvertRx ==
    /\ \/ op = "rx" /\ pc = "ready"
       \/ op = "reading" /\ pc = "read" /\ ~IsPanic(reading)
    /\ result' = convert_rx(IF op = "rx" THEN lens1 ELSE reading, n_assumed, n_actual)
    /\ pc' = "done"
    /\ UNCHANGED <<op, lensVars, prism, valueVars, n_assumed, n_actual, reading, power, blankVars,
                 meridianVars, chainVars>>

NextIndex == ConvertPower \/ SimulateLensmeterReading \/ ConvertRx

SpecIndex == InitIndex /\ [][NextIndex]_vars

\* minimum_blank_size(..) and then recommended_blank_size(..) of one frame.
InitBlank ==
    /\ op = "blank"
    /\ pc = "ready"
    /\ IdleLens
    /\ build \in Builds
    /\ harg = NoArg
    /\ varg = NoArg
    /\ combined = NoCombined
    /\ IdleIndex
    /\ frame \in Frames
    /\ min_size = Returned(0)
    /\ recommended = Returned(0)
    /\ IdleMeridian
    /\ IdleChain

MinimumBlankSize ==
    /\ op = "blank"
    /\ pc = "ready"
    /\ min_size' = minimum_blank_size(frame, build)
    /\ pc' = "min"
    /\ UNCHANGED <<op, lensVars, result, prism, valueVars, indexVars, frame, recommended,
                 meridianVars, chainVars>>

\* Reached when minimum_blank_size returned: its panic ends the process.
RecommendedBlankSize ==
    /\ op = "blank"
    /\ pc = "min"
    /\ ~IsPanic(min_size)
    /\ recommended' = recommended_blank_size(frame, build)
    /\ pc' = "done"
    /\ UNCHANGED <<op, lensVars, result, prism, valueVars, indexVars, frame, min_size,
                 meridianVars, chainVars>>

NextBlank == MinimumBlankSize \/ RecommendedBlankSize

SpecBlank == InitBlank /\ [][NextBlank]_vars

(***************************************************************************)
(* power_at and oblique_meridian on one lens and one meridian.             *)
(***************************************************************************)

InitMeridian ==
    /\ op = "meridian"
    /\ pc = "ready"
    /\ lens1 \in PrismLenses
    /\ lens2 = NoLens
    /\ eye = "OD"
    /\ dec = NoDec
    /\ result = NoLens
    /\ prism = NoPrism
    /\ IdleValue
    /\ IdleIndex
    /\ IdleBlank
    /\ meridian \in PowerMeridians
    /\ at_power = 0
    /\ oblique = 0
    /\ IdleChain

PowerAt ==
    /\ op = "meridian"
    /\ pc = "ready"
    /\ at_power' = power_at(lens1, meridian)
    /\ pc' = "at"
    /\ UNCHANGED <<op, lensVars, result, prism, valueVars, indexVars, blankVars,
                   meridian, oblique, chainVars>>

ObliqueMeridian ==
    /\ op = "meridian"
    /\ pc = "at"
    /\ oblique' = oblique_meridian(lens1, meridian)
    /\ pc' = "done"
    /\ UNCHANGED <<op, lensVars, result, prism, valueVars, indexVars, blankVars,
                   meridian, at_power, chainVars>>

NextMeridian == PowerAt \/ ObliqueMeridian

SpecMeridian == InitMeridian /\ [][NextMeridian]_vars

(***************************************************************************)
(* Three lenses a, b, c combined by repeated calls of crossed_cylinders,   *)
(* grouped as (a, b), c and then as a, (b, c).                             *)
(***************************************************************************)

InitChain ==
    /\ op = "chain"
    /\ pc = "ready"
    /\ lens1 \in ChainLenses
    /\ lens2 \in ChainLenses
    /\ eye = "OD"
    /\ dec = NoDec
    /\ result = NoLens
    /\ prism = NoPrism
    /\ IdleValue
    /\ IdleIndex
    /\ IdleBlank
    /\ IdleMeridian
    /\ lens3 \in ChainLenses
    /\ left = NoLens
    /\ right = NoLens

\* crossed_cylinders(a, b).
CombineFirstTwo ==
    /\ op = "chain"
    /\ pc = "ready"
    /\ \E ptneg \in BOOLEAN : result' = crossed_cylinders(lens1, lens2, ptneg)
    /\ pc' = "ab"
    /\ UNCHANGED <<op, lensVars, prism, valueVars, indexVars, blankVars,
                   meridianVars, chainVars>>

\* crossed_cylinders(crossed_cylinders(a, b), c).
CombineLeft ==
    /\ op = "chain"
    /\ pc = "ab"
    /\ \E ptneg \in BOOLEAN : left' = crossed_cylinders(result, lens3, ptneg)
    /\ pc' = "left"
    /\ UNCHANGED <<op, lensVars, result, prism, valueVars, indexVars, blankVars,
                   meridianVars, lens3, right>>

\* crossed_cylinders(b, c).
CombineLastTwo ==
    /\ op = "chain"
    /\ pc = "left"
    /\ \E ptneg \in BOOLEAN : result' = crossed_cylinders(lens2, lens3, ptneg)
    /\ pc' = "bc"
    /\ UNCHANGED <<op, lensVars, prism, valueVars, indexVars, blankVars,
                   meridianVars, chainVars>>

\* crossed_cylinders(a, crossed_cylinders(b, c)).
CombineRight ==
    /\ op = "chain"
    /\ pc = "bc"
    /\ \E ptneg \in BOOLEAN : right' = crossed_cylinders(lens1, result, ptneg)
    /\ pc' = "done"
    /\ UNCHANGED <<op, lensVars, result, prism, valueVars, indexVars, blankVars,
                   meridianVars, lens3, left>>

NextChain == CombineFirstTwo \/ CombineLeft \/ CombineLastTwo \/ CombineRight

SpecChain == InitChain /\ [][NextChain]_vars

(***************************************************************************)
(* The three functions that read the cylinder axis of a lens.              *)
(***************************************************************************)

InitAxis == InitCC \/ InitPrism \/ InitMeridian

NextAxis == CrossedCylinders \/ InducedPrism \/ PowerAt \/ ObliqueMeridian

SpecAxis == InitAxis /\ [][NextAxis]_vars

Init ==
    \/ InitCC \/ InitPrism \/ InitNew \/ InitFromSigned \/ InitTranspose
    \/ InitIndex \/ InitBlank \/ InitMeridian \/ InitChain

Next ==
    \/ CrossedCylinders \/ InducedPrism
    \/ NewPrisms \/ FromSigned \/ PackagePrism
    \/ Transpose
    \/ ConvertPower \/ SimulateLensmeterReading \/ ConvertRx
    \/ MinimumBlankSize \/ RecommendedBlankSize
    \/ PowerAt \/ ObliqueMeridian
    \/ CombineFirstTwo \/ CombineLeft \/ CombineLastTwo \/ CombineRight

Spec == Init /\ [][Next]_vars

----------------------------------------------------------------------------
(* Tolerances of the comparisons, in units of 1 / SCALE.                   *)

\* Diopters and prism diopters: 0.002.
TolPower == 20

\* Degrees: 0.02.
TolAxis == 200

Near(a, b, tol) == Abs(a - b) <= tol

CCDone == op = "cc" /\ pc = "done"

PrismDone == op = "prism" /\ pc = "done"

InRange(l) == l.axis_deg >= 0 /\ l.axis_deg < Deg(180)

ZeroPower(l) == l.sphere = 0 /\ l.cylinder = 0

OtherEye(e) == IF e = "OD" THEN "OS" ELSE "OD"

----------------------------------------------------------------------------
(* crossed_cylinders                                                       *)

C4_PureSpheresAdd ==
    CCDone /\ lens1.cylinder = 0 /\ lens2.cylinder = 0 =>
        /\ result.sphere = lens1.sphere + lens2.sphere
        /\ result.cylinder = 0
        /\ result.axis_deg >= 0 /\ result.axis_deg < Deg(180)

\* Two spheres of different power at axes 0 and 90.
C4_Witness ==
    /\ CCDone
    /\ lens1.cylinder = 0 /\ lens1.sphere = 10000 /\ lens1.axis_deg = 0
    /\ lens2.cylinder = 0 /\ lens2.sphere = -10000 /\ lens2.axis_deg = Deg(90)
    /\ result.sphere = 0 /\ result.cylinder = 0

----------------------------------------------------------------------------
(* induced_prism                                                           *)

\* C6: with decentration (0, 0), for every eye and lens, both raw components
\* and the magnitude are 0 and both base queries report None.
C6_ZeroDecentration ==
    PrismDone /\ dec = NoDec =>
        /\ prism.prism.horizontal_prism = 0
        /\ prism.prism.vertical_prism = 0
        /\ prism.prism.magnitude = 0
        /\ horizontal(prism) = None
        /\ vertical(prism) = None

\* A left lens with sphere, cylinder and an oblique axis, not decentred.
C6_Witness ==
    /\ PrismDone /\ dec = NoDec /\ eye = "OS"
    /\ lens1.sphere # 0 /\ lens1.cylinder # 0 /\ lens1.axis_deg = Deg(30)
    /\ prism.eye = "OS"

\* C7: for a pure sphere decentred horizontally only, OD and OS give the
\* same horizontal magnitude and the same base, while their raw horizontal
\* values have opposite signs.
C7_EyeMirroring ==
    PrismDone /\ lens1.cylinder = 0 /\ lens1.sphere # 0
              /\ dec.vertical_mm = 0 /\ dec.horizontal_mm # 0 =>
        LET other == induced_prism(OtherEye(eye), lens1, dec)
        IN  /\ horizontal(prism).some /\ horizontal(other).some
            /\ horizontal(prism).amount = horizontal(other).amount
            /\ horizontal(prism).base = horizontal(other).base
            /\ other.prism.horizontal_prism = -prism.prism.horizontal_prism
            /\ prism.prism.horizontal_prism # 0

\* +3.00 DS, 5 mm in: OD raw -1.5 Base In, OS raw +1.5 Base In.
C7_Witness ==
    /\ PrismDone /\ eye = "OD"
    /\ lens1.sphere = 30000 /\ lens1.cylinder = 0
    /\ dec = [vertical_mm |-> 0, horizontal_mm |-> 50000]
    /\ prism.prism.horizontal_prism = -15000
    /\ horizontal(prism) = Some(15000, "In")
    /\ induced_prism("OS", lens1, dec).prism.horizontal_prism = 15000
    /\ horizontal(induced_prism("OS", lens1, dec)) = Some(15000, "In")

\* The power P of the horizontal meridian of a lens without cross-term.
HorizontalPower(l) ==
    IF l.cylinder = 0 \/ l.axis_deg % Deg(180) = 0 THEN l.sphere
    ELSE l.sphere + l.cylinder

NoCrossTerm(l) == l.cylinder = 0 \/ l.axis_deg % Deg(90) = 0

\* C8: for a lens of horizontal power P without cross-term, decentred by
\* d mm horizontally only, the horizontal magnitude and the total magnitude
\* are |P| * |d| / 10, the vertical component is 0, and for OD the raw
\* horizontal value is -P * d / 10.
C8_PrenticeScaling ==
    PrismDone /\ NoCrossTerm(lens1) /\ dec.vertical_mm = 0 =>
        LET P == HorizontalPower(lens1)
            d == dec.horizontal_mm
            expected == DivBy(Mul(Abs(P), Abs(d)), 10)
        IN  /\ Abs(prism.prism.horizontal_prism) = expected
            /\ prism.prism.vertical_prism = 0
            /\ prism.prism.magnitude = expected
            /\ eye = "OD" => prism.prism.horizontal_prism = -DivBy(Mul(P, d), 10)

\* Sphere 1.00, cylinder -1.00, axis 0 (Px = 1.00), 10 mm in, OD: -1.00.
C8_Witness ==
    /\ PrismDone /\ eye = "OD"
    /\ lens1 = [sphere |-> 10000, cylinder |-> -10000, axis_deg |-> 0]
    /\ dec = [vertical_mm |-> 0, horizontal_mm |-> 100000]
    /\ prism.prism.horizontal_prism = -10000
    /\ prism.prism.magnitude = 10000

\* C9 as stated: for OD, horiz < 0 gives Base In and otherwise Base Out; for
\* OS, horiz < 0 gives Base Out and otherwise Base In; the reported magnitude
\* is |horiz|.
C9_HorizontalBaseAsStated ==
    PrismDone =>
        LET horiz == prism.prism.horizontal_prism
        IN  horizontal(prism) =
                Some(Abs(horiz),
                     IF eye = "OD"
                     THEN (IF horiz < 0 THEN "In" ELSE "Out")
                     ELSE (IF horiz < 0 THEN "Out" ELSE "In"))

\* C9 amended: for OD, horiz < 0 gives Base In and horiz > 0 Base Out; for
\* OS, horiz < 0 gives Base Out and horiz > 0 Base In; the reported magnitude
\* is |horiz|; horiz = 0 reports nothing (None) for either eye.
C9_HorizontalBase ==
    PrismDone =>
        LET horiz == prism.prism.horizontal_prism
        IN  /\ horiz < 0 =>
                horizontal(prism) = Some(-horiz, IF eye = "OD" THEN "In" ELSE "Out")
            /\ horiz > 0 =>
                horizontal(prism) = Some(horiz, IF eye = "OD" THEN "Out" ELSE "In")
            /\ horiz = 0 => horizontal(prism) = None

\* A left eye with a positive raw horizontal value: Base In.
C9_Witness ==
    /\ PrismDone /\ eye = "OS"
    /\ prism.prism.horizontal_prism > 0
    /\ prism.prism.vertical_prism # 0
    /\ horizontal(prism) = Some(prism.prism.horizontal_prism, "In")

\* vert = Pt * (dec_in_adj / 10) + Py * (dec_up / 10).
Vert(e, l, d) ==
    LET m == PowerMatrix(l)
        dec_in_adj == IF e = "OD" THEN d.horizontal_mm ELSE -d.horizontal_mm
    IN  Mul(m[2], DivBy(dec_in_adj, 10)) + Mul(m[3], DivBy(d.vertical_mm, 10))

\* C10: the vertical base is Base Up when vert > 0, Base Down when vert < 0
\* and absent when vert = 0, with magnitude |vert|, and the answer is the
\* same whichever eye the result carries.
C10_VerticalBase ==
    PrismDone =>
        LET vert == Vert(eye, lens1, dec)
        IN  /\ vert > 0 => vertical(prism) = Some(vert, "Up")
            /\ vert < 0 => vertical(prism) = Some(-vert, "Down")
            /\ vert = 0 => vertical(prism) = None
            /\ vertical([prism EXCEPT !.eye = OtherEye(eye)]) = vertical(prism)

\* A left eye, a toric cross-term and a downward decentration: Base Down.
C10_Witness ==
    /\ PrismDone /\ eye = "OS"
    /\ PowerMatrix(lens1)[2] # 0
    /\ dec.horizontal_mm # 0 /\ dec.vertical_mm < 0
    /\ Vert(eye, lens1, dec) < 0
    /\ vertical(prism) = Some(-Vert(eye, lens1, dec), "Down")

----------------------------------------------------------------------------
(* HorizontalPrism, VerticalPrism, CombinedPrism                           *)

\* A CombinedPrism has been constructed by the public constructors.
ValueDone == op \in {"new", "from_signed"} /\ pc = "done"

\* A CombinedPrism has been packaged from the result of induced_prism.
Packed == op = "prism" /\ pc = "packed"

\* A CombinedPrism exists: its construction did not panic.
Built == (ValueDone \/ Packed) /\ ~IsPanic(combined)

\* C11: every HorizontalPrism and VerticalPrism obtained through new or
\* from_signed, or as a component of an induced_prism result, has
\* amount() >= 0.
C11_AmountNonNegative ==
    Built =>
        /\ FGeq(HorizontalPrism_amount(combined.horizontal), F(0))
        /\ FGeq(VerticalPrism_amount(combined.vertical), F(0))

\* C12: new with a negative amount panics in a debug build and produces no
\* value; in a release build the check is not made and the value is
\* returned, with the amount and base as given.
C12_NegativeAmountInNew ==
    op = "new" /\ pc = "done"
               /\ (FLess(harg.value, F(0)) \/ FLess(varg.value, F(0))) =>
        /\ build = "debug" => combined = Panic("amount must be non-negative")
        /\ build = "release" =>
               /\ ~IsPanic(combined)
               /\ combined.horizontal = [amount |-> harg.value, base |-> harg.base]
               /\ combined.vertical = [amount |-> varg.value, base |-> varg.base]

\* HorizontalPrism::new(-1.0, In) in a debug build.
C12_Witness ==
    /\ op = "new" /\ pc = "done" /\ build = "debug"
    /\ harg = [value |-> F(-SCALE), base |-> "In"]
    /\ FGeq(varg.value, F(0))
    /\ IsPanic(combined)

\* C13: base() is None exactly when is_none() holds and is the stored base
\* otherwise; VerticalPrism::is_none holds only for an amount of exactly 0,
\* HorizontalPrism::is_none for an amount of 0 or of absolute value below
\* machine epsilon; so an amount of 0 gives None on both, and one positive
\* amount below epsilon gives None for the HorizontalPrism and Some(base) for
\* the VerticalPrism.
C13_BaseAndIsNone ==
    Built =>
        LET h == combined.horizontal
            v == combined.vertical
            hzero == h.amount[1] = 0 /\ h.amount[2] \in {-1, 0, 1}
            vzero == v.amount[1] = 0 /\ v.amount[2] = 0
        IN  /\ HorizontalPrism_is_none(h) <=> hzero
            /\ VerticalPrism_is_none(v) <=> vzero
            /\ HorizontalPrism_base(h) =
                   IF hzero THEN None ELSE [some |-> TRUE, base |-> h.base]
            /\ VerticalPrism_base(v) =
                   IF vzero THEN None ELSE [some |-> TRUE, base |-> v.base]
            /\ h.amount = v.amount /\ h.amount = Tiny(1) =>
                   /\ HorizontalPrism_base(h) = None
                   /\ VerticalPrism_base(v) = [some |-> TRUE, base |-> v.base]

\* The same amount, half a machine epsilon, in both components.
C13_Witness ==
    /\ op = "new" /\ pc = "done" /\ ~IsPanic(combined)
    /\ combined.horizontal = [amount |-> Tiny(1), base |-> "In"]
    /\ combined.vertical = [amount |-> Tiny(1), base |-> "Down"]
    /\ HorizontalPrism_base(combined.horizontal) = None
    /\ VerticalPrism_base(combined.vertical) = [some |-> TRUE, base |-> "Down"]

\* C14: from_signed(v) has amount |v|; the HorizontalPrism has base In for
\* v < 0 and Out for v >= 0, the VerticalPrism base Down for v < 0 and Up
\* for v >= 0; signed() returns v.
C14_FromSigned ==
    op = "from_signed" /\ pc = "done" =>
        LET h == combined.horizontal
            v == combined.vertical
        IN  /\ HorizontalPrism_amount(h) = FAbs(harg.value)
            /\ h.base = IF FLess(harg.value, F(0)) THEN "In" ELSE "Out"
            /\ HorizontalPrism_signed(h) = harg.value
            /\ VerticalPrism_amount(v) = FAbs(varg.value)
            /\ v.base = IF FLess(varg.value, F(0)) THEN "Down" ELSE "Up"
            /\ VerticalPrism_signed(v) = varg.value

\* HorizontalPrism::from_signed(-3.0) and VerticalPrism::from_signed(0.0).
C14_Witness ==
    /\ op = "from_signed" /\ pc = "done"
    /\ harg.value = F(-3 * SCALE) /\ varg.value = F(0)
    /\ combined.horizontal = [amount |-> F(3 * SCALE), base |-> "In"]
    /\ combined.vertical = [amount |-> F(0), base |-> "Up"]
    /\ HorizontalPrism_signed(combined.horizontal) = F(-3 * SCALE)

\* m is the square root of a^2 + b^2, to the resolution of the numbers.
IsRoot(m, a, b) ==
    LET sum == PartsAdd(MulParts(Abs(a), Abs(a)), MulParts(Abs(b), Abs(b)))
    IN  /\ m >= 0
        /\ PartsLeq(MulParts(m, m), sum)
        /\ ~PartsLeq(MulParts(m + 1, m + 1), sum)

\* C15: the magnitude is the Euclidean norm of the two amounts, whatever the
\* base directions, at least each amount, and 0 only when both amounts are
\* 0; the magnitude that induced_prism stores is the norm of its raw
\* components and the magnitude of the packaged CombinedPrism.
C15_Magnitude ==
    /\ Built =>
        LET a == combined.horizontal.amount
            b == combined.vertical.amount
            m == magnitude(combined)
            k == IF a[1] # 0 \/ b[1] # 0 THEN 1 ELSE 2
        IN  /\ IsRoot(m[k], a[k], b[k])
            /\ m[3 - k] = 0
            /\ FGeq(m, a) /\ FGeq(m, b)
            /\ m = F(0) <=> (a = F(0) /\ b = F(0))
            /\ \A hb \in HorizontalBases, vb \in VerticalBases :
                   magnitude([horizontal |-> [amount |-> a, base |-> hb],
                              vertical |-> [amount |-> b, base |-> vb]]) = m
    /\ op = "prism" /\ pc \in {"done", "packed"} =>
        IsRoot(prism.prism.magnitude,
               prism.prism.horizontal_prism, prism.prism.vertical_prism)
    /\ Packed => magnitude(combined) = F(prism.prism.magnitude)

\* 3 Base In and 4 Base Down give 5.
C15_Witness ==
    /\ op = "new" /\ pc = "done" /\ ~IsPanic(combined)
    /\ combined.horizontal = [amount |-> F(3 * SCALE), base |-> "In"]
    /\ combined.vertical = [amount |-> F(4 * SCALE), base |-> "Down"]
    /\ magnitude(combined) = F(5 * SCALE)

----------------------------------------------------------------------------
(* transpose                                                               *)

TransposedOnce == op = "transpose" /\ pc = "once"

TransposedTwice == op = "transpose" /\ pc = "twice"

C18_PowerPreserved ==
    TransposedOnce =>
        \A phi \in Meridians :
            Near(power_at(result, phi), power_at(lens1, phi), TolPower)

\* -2.00 / -2.00 x 60: -3.50 D at the meridian 120, before and after.
C18_Witness ==
    /\ TransposedOnce
    /\ lens1 = [sphere |-> -20000, cylinder |-> -20000, axis_deg |-> Deg(60)]
    /\ result = [sphere |-> -40000, cylinder |-> 20000, axis_deg |-> Deg(150)]
    /\ power_at(lens1, Deg(120)) = -35000
    /\ Near(power_at(result, Deg(120)), -35000, TolPower)
    /\ power_at(lens1, Deg(60)) = -20000

----------------------------------------------------------------------------
(* convert_power, convert_rx, simulate_lensmeter_reading                   *)

\* One of the two indices is not above 1.0.
BadIndex(na, nb) == na <= SCALE \/ nb <= SCALE

\* C19: convert_power returns no value when n_assumed <= 1.0 or
\* n_actual <= 1.0: it panics with 'n_assumed must be > 1.0' when
\* n_assumed <= 1.0 and with 'n_actual must be > 1.0' when only
\* n_actual <= 1.0; convert_rx and simulate_lensmeter_reading panic in the
\* same cases.
C19_IndexAssertions ==
    /\ op = "power" /\ pc = "done" =>
        /\ n_assumed <= SCALE => power = Panic("n_assumed must be > 1.0")
        /\ n_assumed > SCALE /\ n_actual <= SCALE =>
               power = Panic("n_actual must be > 1.0")
        /\ IsPanic(power) <=> BadIndex(n_assumed, n_actual)
    /\ op = "rx" /\ pc = "done" =>
        /\ n_assumed <= SCALE => result = Panic("n_assumed must be > 1.0")
        /\ n_assumed > SCALE /\ n_actual <= SCALE =>
               result = Panic("n_actual must be > 1.0")
        /\ IsPanic(result) <=> BadIndex(n_assumed, n_actual)
    /\ op = "reading" /\ pc = "read" =>
        IsPanic(reading) <=> BadIndex(n_assumed, n_actual)

\* convert_power(_, 1.0, 0.9): both indices are bad, n_assumed is reported.
C19_Witness ==
    /\ op = "power" /\ pc = "done"
    /\ n_assumed = SCALE /\ n_actual = 9000
    /\ power = Panic("n_assumed must be > 1.0")

\* C20: for n_assumed > 1 and n_actual > 1, convert_rx of the simulated
\* reading recovers the sphere and the cylinder of rx; both functions return
\* the axis unchanged and scale sphere and cylinder by one factor,
\* (n_actual - 1) / (n_assumed - 1) for convert_rx and its inverse for
\* simulate_lensmeter_reading.
C20_ReadingInverse ==
    /\ op = "reading" /\ pc = "done" =>
        LET down == Div(n_assumed - SCALE, n_actual - SCALE)
            up == Div(n_actual - SCALE, n_assumed - SCALE)
        IN  /\ ~IsPanic(result)
            /\ Near(result.sphere, lens1.sphere, TolPower)
            /\ Near(result.cylinder, lens1.cylinder, TolPower)
            /\ reading.axis_deg = lens1.axis_deg
            /\ result.axis_deg = lens1.axis_deg
            /\ reading.sphere = Mul(lens1.sphere, down)
            /\ reading.cylinder = Mul(lens1.cylinder, down)
            /\ result.sphere = Mul(reading.sphere, up)
            /\ result.cylinder = Mul(reading.cylinder, up)
    /\ op = "rx" /\ pc = "done" /\ ~BadIndex(n_assumed, n_actual) =>
        LET up == Div(n_actual - SCALE, n_assumed - SCALE)
        IN  /\ ~IsPanic(result)
            /\ result.axis_deg = lens1.axis_deg
            /\ result.sphere = Mul(lens1.sphere, up)
            /\ result.cylinder = Mul(lens1.cylinder, up)

\* -3.00 / -2.00 x 37 in polycarbonate reads -2.6775 / -1.7850 x 37 on a
\* lensmeter calibrated to 1.523, and converts back.
C20_Witness ==
    /\ op = "reading" /\ pc = "done"
    /\ n_assumed = 15230 /\ n_actual = 15860
    /\ lens1 = [sphere |-> -30000, cylinder |-> -20000, axis_deg |-> Deg(37)]
    /\ reading = [sphere |-> -26775, cylinder |-> -17850, axis_deg |-> Deg(37)]
    /\ Near(result.sphere, -30000, TolPower)
    /\ Near(result.cylinder, -20000, TolPower)
    /\ result.axis_deg = Deg(37)

----------------------------------------------------------------------------
(* minimum_blank_size, recommended_blank_size                              *)

NonNegative(f) ==
    /\ f.effective_diameter_mm >= 0
    /\ f.eyesize_mm >= 0
    /\ f.bridge_mm >= 0
    /\ f.ipd_mm >= 0

\* C21: for non-negative arguments minimum_blank_size returns
\* effective_diameter + (eyesize + bridge - ipd) and recommended_blank_size
\* returns the minimum blank size of the same arguments plus 2
\* (55, 50, 15, 53 give 67 and 69).
C21_BlankSize ==
    op = "blank" /\ NonNegative(frame) =>
        /\ pc \in {"min", "done"} =>
               min_size = Returned(frame.effective_diameter_mm
                                   + (frame.eyesize_mm + frame.bridge_mm
                                      - frame.ipd_mm))
        /\ pc = "done" => recommended = Returned(min_size.value + 2 * SCALE)

\* 55, 50, 15, 53: 67 and 69.
C21_Witness ==
    /\ op = "blank" /\ pc = "done"
    /\ frame = [effective_diameter_mm |-> 55 * SCALE, eyesize_mm |-> 50 * SCALE,
                bridge_mm |-> 15 * SCALE, ipd_mm |-> 53 * SCALE]
    /\ min_size = Returned(67 * SCALE)
    /\ recommended = Returned(69 * SCALE)

\* The call of power_at has returned.
AtDone == op = "meridian" /\ pc \in {"at", "done"}

\* C22: power_at(phi) is sphere + cylinder * sin^2(phi - axis): it is the
\* sphere at phi = axis, sphere + cylinder at phi = axis + 90, the matrix
\* entry Px at phi = 0 and Py at phi = 90 (up to the rounding of the two
\* ways of forming the product), and oblique_meridian returns the value
\* power_at returned for the same lens and meridian.
C22_PowerAt ==
    AtDone =>
        LET s == Sin(meridian - lens1.axis_deg)
            m == PowerMatrix(lens1)
        IN  /\ at_power = lens1.sphere + Mul(lens1.cylinder, Mul(s, s))
            /\ meridian = lens1.axis_deg => at_power = lens1.sphere
            /\ meridian = lens1.axis_deg + Deg(90) =>
                   at_power = lens1.sphere + lens1.cylinder
            /\ meridian = 0 => Near(at_power, m[1], TolPower)
            /\ meridian = Deg(90) => Near(at_power, m[3], TolPower)
            /\ pc = "done" => oblique = at_power

\* -2.00 -2.00 x 30 asked at 120, ninety degrees from its axis: -4.00 from
\* both functions.
C22_Witness ==
    /\ op = "meridian"
    /\ pc = "done"
    /\ lens1 = [sphere |-> -2 * SCALE, cylinder |-> -2 * SCALE, axis_deg |-> Deg(30)]
    /\ meridian = Deg(120)
    /\ at_power = -4 * SCALE
    /\ oblique = -4 * SCALE

\* The horizontal component Px * (-dec_in_adj / 10) + Pt * (-dec_up / 10).
Horiz(e, l, d) ==
    LET m == PowerMatrix(l)
        dec_in_adj == IF e = "OD" THEN d.horizontal_mm ELSE -d.horizontal_mm
    IN  Mul(m[1], DivBy(-dec_in_adj, 10)) + Mul(m[2], DivBy(-d.vertical_mm, 10))

\* C23 as stated: the raw components of induced_prism are
\* horiz = Px * (-dec_in_adj / 10) + Pt * (-dec_up / 10) and
\* vert = Pt * (dec_in_adj / 10) + Py * (dec_up / 10).
C23_RawComponentsAsStated ==
    PrismDone =>
        /\ Near(prism.prism.horizontal_prism, Horiz(eye, lens1, dec), TolPower)
        /\ Near(prism.prism.vertical_prism, Vert(eye, lens1, dec), TolPower)

\* C23: the raw horizontal component of induced_prism is
\* Px * (-dec_in_adj / 10) + Pt * (-dec_up / 10), and the raw vertical
\* component is the negative of Pt * (dec_in_adj / 10) + Py * (dec_up / 10),
\* up to the rounding of the order of the operations.
C23_RawComponents ==
    PrismDone =>
        /\ Near(prism.prism.horizontal_prism, Horiz(eye, lens1, dec), TolPower)
        /\ Near(prism.prism.vertical_prism, -Vert(eye, lens1, dec), TolPower)

\* +1.00 -2.00 x 30 on OD, 5 mm up and 5 mm in: both components get a
\* contribution of the cross-term, and the vertical one is not zero.
C23_Witness ==
    /\ PrismDone
    /\ eye = "OD"
    /\ lens1 = [sphere |-> SCALE, cylinder |-> -2 * SCALE, axis_deg |-> Deg(30)]
    /\ dec = [vertical_mm |-> 50000, horizontal_mm |-> 50000]
    /\ PowerMatrix(lens1)[2] # 0
    /\ Abs(Vert(eye, lens1, dec)) > TolPower
    /\ Near(prism.prism.vertical_prism, -Vert(eye, lens1, dec), TolPower)

\* The decentration with its horizontal component negated.
FlipHorizontal(d) == [d EXCEPT !.horizontal_mm = -d.horizontal_mm]

\* C24: the eye enters only through the nasal flip: induced_prism for one
\* eye with decentration (v, h) has the same raw horizontal and vertical
\* components and the same magnitude as induced_prism for the other eye with
\* decentration (v, -h).
C24_EyeIsNasalFlip ==
    PrismDone =>
        induced_prism(OtherEye(eye), lens1, FlipHorizontal(dec)).prism = prism.prism

\* OS, +1.00 -2.00 x 30, decentration 5 mm up and +5 mm horizontal: the
\* components are those of OD with the horizontal decentration negated.
C24_Witness ==
    /\ PrismDone
    /\ eye = "OS"
    /\ lens1 = [sphere |-> SCALE, cylinder |-> -2 * SCALE, axis_deg |-> Deg(30)]
    /\ dec = [vertical_mm |-> 50000, horizontal_mm |-> 50000]
    /\ prism.prism.horizontal_prism # 0
    /\ prism.prism.vertical_prism # 0
    /\ induced_prism("OD", lens1, [vertical_mm |-> 50000, horizontal_mm |-> -50000]).prism
           = prism.prism

\* The lens with its axis moved by half a turn.
ShiftAxis(l) == [l EXCEPT !.axis_deg = @ + Deg(180)]

\* Two axes are the same direction: they differ by a multiple of 180
\* degrees, up to the tolerance.
SameAxis(a, b, tol) ==
    LET d == Abs(a - b) % Deg(180)
    IN  d <= tol \/ Deg(180) - d <= tol

\* Two lenses are the same lens: sphere and cylinder agree and, unless the
\* cylinder vanishes, so does the direction of the axis.
SameLens(l, r, tol) ==
    /\ Near(l.sphere, r.sphere, TolPower)
    /\ Near(l.cylinder, r.cylinder, TolPower)
    /\ Abs(l.cylinder) > TolPower => SameAxis(l.axis_deg, r.axis_deg, tol)

ChainTolAxis == Deg(1)

\* C26 as stated: combining lenses by repeated crossed_cylinders does not
\* depend on order or grouping: crossed_cylinders(a, b) is
\* crossed_cylinders(b, a), and crossed_cylinders(crossed_cylinders(a, b), c)
\* is the same lens as crossed_cylinders(a, crossed_cylinders(b, c)).
C26_OrderAndGrouping ==
    op = "chain" =>
        /\ pc = "ab" =>
               \A ptneg \in BOOLEAN :
                   crossed_cylinders(lens2, lens1, ptneg) = result
        /\ pc = "done" => SameLens(left, right, ChainTolAxis)

C28_SphericalEquivalent ==
    CCDone =>
        Near(result.sphere + DivBy(result.cylinder, 2),
             (lens1.sphere + DivBy(lens1.cylinder, 2))
                 + (lens2.sphere + DivBy(lens2.cylinder, 2)),
             TolPower)

\* Two obliquely crossed cylinders with different axes and a result whose
\* cylinder is not zero.
C28_Witness ==
    /\ CCDone
    /\ lens1 = [sphere |-> SCALE, cylinder |-> -2 * SCALE, axis_deg |-> Deg(30)]
    /\ lens2 = [sphere |-> -SCALE, cylinder |-> SCALE, axis_deg |-> Deg(120)]
    /\ result.cylinder < -TolPower
    /\ Near(result.sphere + DivBy(result.cylinder, 2), -5000, TolPower)

\* The opposite base direction.
Opposite(base) ==
    CASE base = "In" -> "Out"
      [] base = "Out" -> "In"
      [] base = "Up" -> "Down"
      [] base = "Down" -> "Up"

\* One clinical component is the other with its base reversed: both absent,
\* or both present with the same amount and opposite bases.
Reversed(a, b) ==
    IF a.some
    THEN b.some /\ b.amount = a.amount /\ b.base = Opposite(a.base)
    ELSE ~b.some

\* The decentration with both components negated.
NegateDec(d) ==
    [vertical_mm |-> -d.vertical_mm, horizontal_mm |-> -d.horizontal_mm]

\* C29: induced_prism is odd in the decentration: negating both components
\* keeps the horizontal and vertical amounts and the magnitude and turns
\* every component that is not zero to the opposite base.
C29_OddInDecentration ==
    PrismDone =>
        LET other == induced_prism(eye, lens1, NegateDec(dec))
        IN  /\ Reversed(horizontal(prism), horizontal(other))
            /\ Reversed(vertical(prism), vertical(other))
            /\ other.prism.magnitude = prism.prism.magnitude

\* +1.00 -2.00 x 30 on OS decentred 5 mm up and 10 mm sideways: both
\* components are present and both turn over with the decentration.
C29_Witness ==
    /\ PrismDone
    /\ eye = "OS"
    /\ lens1 = [sphere |-> SCALE, cylinder |-> -2 * SCALE, axis_deg |-> Deg(30)]
    /\ dec = [vertical_mm |-> 50000, horizontal_mm |-> -100000]
    /\ horizontal(prism).some
    /\ vertical(prism).some
    /\ horizontal(induced_prism(eye, lens1, NegateDec(dec))).base
           = Opposite(horizontal(prism).base)
    /\ vertical(induced_prism(eye, lens1, NegateDec(dec))).base
           = Opposite(vertical(prism).base)

\* C30: with a purely vertical decentration the raw components are the
\* same for OD and OS, so the vertical amount and base are the same for
\* both eyes, and a horizontal prism that is not zero is reported with
\* opposite horizontal bases for the two eyes.
C30_VerticalDecentration ==
    PrismDone /\ dec.horizontal_mm = 0 =>
        LET other == induced_prism(OtherEye(eye), lens1, dec)
        IN  /\ other.prism.horizontal_prism = prism.prism.horizontal_prism
            /\ other.prism.vertical_prism = prism.prism.vertical_prism
            /\ vertical(other) = vertical(prism)
            /\ prism.prism.horizontal_prism # 0 =>
                   Reversed(horizontal(prism), horizontal(other))

\* +1.00 -2.00 x 30 decentred 5 mm up only: the cross-term gives a
\* horizontal prism, Base In for one eye and Base Out for the other.
C30_Witness ==
    /\ PrismDone
    /\ eye = "OD"
    /\ lens1 = [sphere |-> SCALE, cylinder |-> -2 * SCALE, axis_deg |-> Deg(30)]
    /\ dec = [vertical_mm |-> 50000, horizontal_mm |-> 0]
    /\ horizontal(prism).some
    /\ vertical(prism).some
    /\ horizontal(induced_prism("OS", lens1, dec)).base
           = Opposite(horizontal(prism).base)
    /\ vertical(induced_prism("OS", lens1, dec)) = vertical(prism)

====
